---- MODULE Spec2Model ----
(***************************************************************************)
(* Model of aus_nem_price_analyzer: the battery arbitrage backtest         *)
(* (battery_strategy.py) and the CSV column resolver / loader              *)
(* (data_loader.py).                                                       *)
(*                                                                         *)
(* Numbers are exact rationals held as scaled integers:                    *)
(*   price                      $/MWh, integer                             *)
(*   timestamp                  hours, integer                             *)
(*   low_quantile/high_quantile quarters        (1 stands for 0.25)        *)
(*   round_trip_efficiency      tenths          (9 stands for 0.9)         *)
(*   low_thr/high_thr           quarter dollars (4 x the threshold)        *)
(*   interval_hours             half hours      (2 x the hours)            *)
(*   capacity_mwh, power_mw     integer MWh, MW                            *)
(*   soc, energy_from_grid      half MWh        (2 x)                      *)
(*   cost                       half dollars    (2 x)                      *)
(*   energy_to_grid, revenue,                                              *)
(*   total_profit               twentieths      (20 x)                     *)
(* Floating-point rounding is not modelled.                                *)
(***************************************************************************)
EXTENDS Integers, Sequences, FiniteSets, TLC

VARIABLES
    df,                 \* battery_backtest: the table passed in, rows in caller order
    cfg,                \* battery_backtest: the keyword arguments
    pc,                 \* position in battery_backtest
    prices,             \* sorted_df["price"]
    idx,                \* loop position in `for price in prices`
    low_thr, high_thr, interval_hours,
    soc, cost, revenue, charge_events, discharge_events,
    energy_from_grid, energy_to_grid,
    result,             \* the returned BatteryResult, the raised error, or None
    prev,               \* the previous call's arguments and result (history)
    columns, target, overrides,   \* _resolve_column: its three arguments
    resolved,           \* _resolve_column: what it returned or raised
    source, opts,       \* load_csv: the CSV read by pd.read_csv, the LoadOptions
    loaded,             \* load_csv: the returned table or the raised error
    file_paths, options, drop_duplicates,   \* load_csvs: its three arguments
    merge_pc,           \* position in load_csvs
    frames,             \* load_csvs: the frames loaded so far
    combined,           \* load_csvs: the returned table or the raised error
    spike_df, threshold, quantile,          \* detect_spikes: its arguments
    spikes,             \* detect_spikes: (events, stats) or the raised error
    filter_df, region, start, end,          \* filter_data: its arguments
    filtered            \* filter_data: the returned table or the raised error

batteryVars == <<df, cfg, pc, prices, idx, low_thr, high_thr, interval_hours, soc,
                 cost, revenue, charge_events, discharge_events, energy_from_grid,
                 energy_to_grid, result, prev>>
resolveVars == <<columns, target, overrides, resolved>>
loadVars == <<source, opts, loaded>>
mergeVars == <<file_paths, options, drop_duplicates, merge_pc, frames, combined>>
spikeVars == <<spike_df, threshold, quantile, spikes>>
filterVars == <<filter_df, region, start, end, filtered>>

vars == <<batteryVars, resolveVars, loadVars,
                   mergeVars, spikeVars, filterVars>>

None == [kind |-> "none"]

\* ------------------------------------------------------------------ bounds
MaxRows == 3

Times == {0, 1}
Prices == {-10, 0, 20}
\* (low_quantile, high_quantile): five ordered pairs over 0, 0.25, 0.75, 1 and
\* three pairs the quantile guard rejects.
QuantilePairs ==
    {<<0, 1>>, <<0, 4>>, <<1, 3>>, <<1, 4>>, <<3, 4>>,
     <<1, 1>>, <<-1, 3>>, <<1, 5>>}
Efficiencies == {0, 5, 9, 10, 11}
\* (capacity_mwh, power_mw); the code accepts non-positive values unchecked.
BatterySizes == {<<1, 1>>, <<1, 2>>, <<2, 1>>, <<2, 2>>, <<-1, 1>>, <<1, 0>>}

Rows == [timestamp : Times, price : Prices]

Tables == UNION {[1..n -> Rows] : n \in 0..MaxRows}

\* tests/test_battery_strategy.py: hourly prices 20, 100, 200, 50
TestTable ==
    <<[timestamp |-> 0, price |-> 20], [timestamp |-> 1, price |-> 100],
      [timestamp |-> 2, price |-> 200], [timestamp |-> 3, price |-> 50]>>

Configs ==
    {[low_quantile |-> q[1], high_quantile |-> q[2],
      round_trip_efficiency |-> e,
      capacity_mwh |-> b[1], power_mw |-> b[2]] :
        q \in QuantilePairs, e \in Efficiencies, b \in BatterySizes}

\* The default arguments of the test: quantiles 0.25/0.75, efficiency 0.9,
\* capacity 1.0, power 1.0.
TestConfig ==
    [low_quantile |-> 1, high_quantile |-> 3, round_trip_efficiency |-> 9,
     capacity_mwh |-> 1, power_mw |-> 1]

\* ----------------------------------------------------------------- helpers
Min(a, b) == IF a <= b THEN a ELSE b

\* Insert the pair x = <<key, item>> into the sequence s of such pairs, which
\* is ascending by key, after every pair whose key is <= x's (stable).
RECURSIVE InsertBy(_, _)
InsertBy(x, s) ==
    IF s = <<>> THEN <<x>>
    ELSE IF x[1] < Head(s)[1] THEN <<x>> \o s
    ELSE <<Head(s)>> \o InsertBy(x, Tail(s))

\* Stable sort of a sequence of <<key, item>> pairs by key.
RECURSIVE SortBy(_)
SortBy(s) ==
    IF s = <<>> THEN <<>>
    ELSE InsertBy(s[Len(s)], SortBy(SubSeq(s, 1, Len(s) - 1)))

\* Series.sort_values() of a sequence of integers.
SortValues(s) ==
    LET keyed == SortBy([k \in 1..Len(s) |-> <<s[k], s[k]>>])
    IN  [k \in 1..Len(s) |-> keyed[k][2]]

\* Mutant: the rows are taken in the caller's order.
SortValuesUnsorted(t) == t

\* df.sort_values("timestamp").reset_index(drop=True)
SortValuesByTimestamp(t) ==
    LET keyed == SortBy([k \in 1..Len(t) |-> <<t[k].timestamp, t[k]>>])
    IN  [k \in 1..Len(t) |-> keyed[k][2]]

\* Series.quantile(q), linear interpolation, q in quarters; 4 x the value.
SeriesQuantile(s, q) ==
    LET sorted == SortValues(s)
        pos4 == (Len(s) - 1) * q
        lo == (pos4 \div 4) + 1
        frac4 == pos4 % 4
    IN IF frac4 = 0 THEN 4 * sorted[lo]
       ELSE 4 * sorted[lo] + frac4 * (sorted[lo + 1] - sorted[lo])

\* Series.diff().dropna() of the sorted timestamps
Deltas(ts) == [k \in 1..(Len(ts) - 1) |-> ts[k + 1] - ts[k]]

\* Series.median(); 2 x the value.
SeriesMedian2(s) ==
    LET sorted == SortValues(s)
        n == Len(s)
    IN IF n % 2 = 1 THEN 2 * sorted[(n + 1) \div 2]
       ELSE sorted[n \div 2] + sorted[(n \div 2) + 1]

\* Mutant: a zero median gap is returned as it is.
EstimateIntervalHoursNoFallback(t) ==
    LET ts == SortValues([k \in 1..Len(t) |-> t[k].timestamp])
        deltas == Deltas(ts)
    IN IF deltas = <<>> THEN 2 ELSE SeriesMedian2(deltas)

\* _estimate_interval_hours; 2 x the hours.
EstimateIntervalHours(t) ==
    LET ts == SortValues([k \in 1..Len(t) |-> t[k].timestamp])
        deltas == Deltas(ts)
    IN IF deltas = <<>> THEN 2
       ELSE IF SeriesMedian2(deltas) # 0 THEN SeriesMedian2(deltas) ELSE 2

\* ------------------------------------------------------------ data_loader
\* A header is a text in one capitalisation: `base` is the text in lower case,
\* `caps` tells how the source writes it ("rrp", "RRP", "Rrp").  Two headers are
\* the same string iff both fields agree.
Header(base, caps) == [base |-> base, caps |-> caps]

\* Mutant: no case folding.
LowerCaseSensitive(h) == h

\* str.lower()
Lower(h) == [h EXCEPT !.caps = "lower"]

Roles == {"timestamp", "region", "price", "demand"}

\* DEFAULT_ALIASES, each role's aliases in priority order
DEFAULT_ALIASES ==
    [timestamp |-> <<"timestamp", "datetime", "settlementdate", "trading_interval">>,
     region |-> <<"region", "regionid">>,
     price |-> <<"price", "rrp">>,
     demand |-> <<"demand", "totaldemand", "total_demand", "demandmw">>]

\* DEFAULT_ALIASES.get(target, ())
AliasesOf(role) == IF role \in DOMAIN DEFAULT_ALIASES THEN DEFAULT_ALIASES[role] ELSE <<>>

ColumnSet(cols) == {cols[k] : k \in 1..Len(cols)}

\* normalized = {c.lower(): c for c in columns}: a later column replaces an
\* earlier one with the same lower-cased name.
NormalizedKeys(cols) == {Lower(cols[k]) : k \in 1..Len(cols)}
NormalizedGet(cols, key) ==
    LET at == {k \in 1..Len(cols) : Lower(cols[k]) = key}
        last == CHOOSE k \in at : \A j \in at : j <= k
    IN cols[last]

NotFound == [kind |-> "notfound"]
Found(h) == [kind |-> "column", column |-> h]
OverrideError(role, h) ==
    [kind |-> "error", error |-> "InvalidOverride", role |-> role, override |-> h]

\* for alias in aliases: if alias in normalized: return normalized[alias]
RECURSIVE ScanAliases(_, _)
ScanAliases(cols, aliases) ==
    IF aliases = <<>> THEN NotFound
    ELSE IF Header(Head(aliases), "lower") \in NormalizedKeys(cols)
    THEN Found(NormalizedGet(cols, Header(Head(aliases), "lower")))
    ELSE ScanAliases(cols, Tail(aliases))

\* Mutant: the override is looked up ignoring case, like an alias.
ResolveColumnOverrideAnyCase(cols, role, ovr) ==
    IF role \in DOMAIN ovr
    THEN IF Lower(ovr[role]) \in NormalizedKeys(cols)
         THEN Found(NormalizedGet(cols, Lower(ovr[role])))
         ELSE OverrideError(role, ovr[role])
    ELSE ScanAliases(cols, AliasesOf(role))

\* _resolve_column.  `ovr` is a function from some roles to headers; the empty
\* function stands for both None and {} (`if overrides and ...`).
ResolveColumn(cols, role, ovr) ==
    IF role \in DOMAIN ovr
    THEN IF ovr[role] \in ColumnSet(cols)
         THEN Found(ovr[role])
         ELSE OverrideError(role, ovr[role])
    ELSE ScanAliases(cols, AliasesOf(role))

\* The columns _resolve_column is tried on: up to MaxCols distinct headers drawn
\* from alias and non-alias names in two capitalisations, and the test's CSV.
MaxCols == 2

ResolveHeaders ==
    {Header(b, c) :
        b \in {"timestamp", "settlementdate", "region", "regionid", "price", "rrp",
               "demand", "totaldemand", "zone"},
        c \in {"lower", "upper"}}

\* tests/test_data_loader.py: SETTLEMENTDATE,REGIONID,RRP,TOTALDEMAND
TestHeaders ==
    <<Header("settlementdate", "upper"), Header("regionid", "upper"),
      Header("rrp", "upper"), Header("totaldemand", "upper")>>

ColumnLists ==
    {c \in UNION {[1..n -> ResolveHeaders] : n \in 0..MaxCols} :
        \A i, j \in 1..Len(c) : i # j => c[i] # c[j]}
    \cup {TestHeaders}

EmptyOverrides == [r \in {} |-> Header("", "lower")]

OverrideHeaders ==
    {Header("price", "lower"), Header("rrp", "upper"), Header("zone", "lower"),
     Header("price_value", "lower")}

OverrideChoices ==
    {EmptyOverrides} \cup {[r \in {role} |-> h] : role \in Roles, h \in OverrideHeaders}

ResolveUnused ==
    /\ columns = <<>>
    /\ target = "none"
    /\ overrides = EmptyOverrides
    /\ resolved = None

\* One call of _resolve_column.
Resolve ==
    /\ target \in Roles
    /\ resolved = None
    /\ resolved' = ResolveColumn(columns, target, overrides)
    /\ UNCHANGED <<columns, target, overrides, batteryVars, loadVars,
                   mergeVars, spikeVars, filterVars>>

\* --------------------------------------------------------------- load_csv
\* A CSV as pd.read_csv returns it.  source.layout lists the columns in file
\* order, each with its header and the field of the row it holds; source.rows
\* are the data rows; source.zone is the UTC offset every parseable timestamp
\* of the file is written with ("naive": none).  Files mixing zoned and
\* unzoned timestamps, files with two headers equal up to case, and overrides
\* naming one header for two roles are not drawn.
\* Cells: [k |-> "ts", wall |-> hour] a timestamp text, [k |-> "num", v |-> n]
\* a number, [k |-> "str", s |-> text] a region code, [k |-> "text"] any other
\* text, [k |-> "na"] an empty cell.
NaT == [kind |-> "NaT"]
NaN == [kind |-> "NaN"]
NoTimezone == "<None>"

\* Hours by which local time is ahead of UTC.
UtcOffset(zone) ==
    CASE zone = "UTC" -> 0
      [] zone = "+10:00" -> 10
      [] zone = "Australia/Melbourne" -> 10

\* Wall-clock hours that do not exist in the zone (the hour skipped when
\* daylight saving starts).
NonexistentHours(zone) == IF zone = "Australia/Melbourne" THEN {2} ELSE {}

\* pd.to_datetime(cell, errors="coerce"): a timestamp holds the wall-clock hour
\* when naive and the UTC hour when zoned.
ToDatetime(cell, zone) ==
    IF cell.k = "ts"
    THEN [kind |-> "ts",
          t |-> IF zone = "naive" THEN cell.wall ELSE cell.wall - UtcOffset(zone),
          tz |-> zone]
    ELSE NaT

\* Series.dt.tz_localize(tz, nonexistent="NaT", ambiguous="NaT")
TzLocalize(ts, tz) ==
    IF ts = NaT THEN NaT
    ELSE IF ts.t \in NonexistentHours(tz) THEN NaT
    ELSE [kind |-> "ts", t |-> ts.t - UtcOffset(tz), tz |-> tz]

\* Series.dt.tz_convert(tz)
TzConvert(ts, tz) == IF ts = NaT THEN NaT ELSE [ts EXCEPT !.tz = tz]

IsZoned(ts) == ts # NaT /\ ts.tz # "naive"

\* Series.dt.tz of the parsed column: None ("naive") unless its values are zoned
ColumnTz(col) ==
    IF \E k \in 1..Len(col) : IsZoned(col[k])
    THEN col[CHOOSE k \in 1..Len(col) : IsZoned(col[k])].tz
    ELSE "naive"

\* if opts.timezone: localize a naive column, convert a zoned one
TimestampHandling(col, timezone) ==
    IF timezone \in {NoTimezone, ""} THEN col
    ELSE IF ColumnTz(col) = "naive"
    THEN [k \in 1..Len(col) |-> TzLocalize(col[k], timezone)]
    ELSE [k \in 1..Len(col) |-> TzConvert(col[k], timezone)]

\* pd.to_numeric(cell, errors="coerce")
ToNumeric(cell) == IF cell.k = "num" THEN [kind |-> "num", v |-> cell.v] ELSE NaN

\* Series.isna() of a region cell
RegionIsNa(cell) == cell.k = "na"

LoadError(error, role) == [kind |-> "error", error |-> error, role |-> role]

\* Mutant: the region check is left out.
CoerceRequiredColumnsNoRegion(rows) ==
    IF \E k \in 1..Len(rows) : rows[k].timestamp = NaT
    THEN LoadError("InvalidColumn", "timestamp")
    ELSE IF \E k \in 1..Len(rows) : rows[k].price = NaN
    THEN LoadError("InvalidColumn", "price")
    ELSE None

\* _coerce_required_columns: the error it raises, or None
CoerceRequiredColumns(rows) ==
    IF \E k \in 1..Len(rows) : rows[k].timestamp = NaT
    THEN LoadError("InvalidColumn", "timestamp")
    ELSE IF \E k \in 1..Len(rows) : rows[k].price = NaN
    THEN LoadError("InvalidColumn", "price")
    ELSE IF \E k \in 1..Len(rows) : RegionIsNa(rows[k].region)
    THEN LoadError("InvalidColumn", "region")
    ELSE None

\* Mutant: demand handled as a required role.
RequiredRolesWithDemand == <<"timestamp", "region", "price", "demand">>

\* for key in ("timestamp", "region", "price")
RequiredRoles == <<"timestamp", "region", "price">>

\* The loop over the required roles: the first error raised, or None.
RECURSIVE ResolveRequired(_, _, _)
ResolveRequired(headers, roles, ovr) ==
    IF roles = <<>> THEN None
    ELSE LET column == ResolveColumn(headers, Head(roles), ovr)
         IN IF column.kind = "error" THEN column
            ELSE IF column.kind = "notfound"
            THEN LoadError("MissingColumn", Head(roles))
            ELSE ResolveRequired(headers, Tail(roles), ovr)

HeadersOf(src) == [k \in 1..Len(src.layout) |-> src.layout[k].header]

\* df[header]: the cells of the column with that header, in row order
RawColumn(src, h) ==
    LET j == CHOOSE k \in 1..Len(src.layout) : src.layout[k].header = h
    IN [r \in 1..Len(src.rows) |-> src.rows[r][src.layout[j].field]]

TimestampKey(row) == row.timestamp.t

\* df.sort_values("timestamp") on the standardised rows
SortRowsByTimestamp(rows) ==
    LET keyed == SortBy([k \in 1..Len(rows) |-> <<TimestampKey(rows[k]), rows[k]>>])
    IN  [k \in 1..Len(rows) |-> keyed[k][2]]

\* load_csv after the columns are resolved: coercion, validation, sorting and
\* the selection of the canonical columns.
Standardise(src, o) ==
    LET headers == HeadersOf(src)
        ovr == o.column_overrides
        col(role) == RawColumn(src, ResolveColumn(headers, role, ovr).column)
        has_demand == ResolveColumn(headers, "demand", ovr).kind = "column"
        parsed == [r \in 1..Len(src.rows) |-> ToDatetime(col("timestamp")[r], src.zone)]
        timestamp == TimestampHandling(parsed, o.timezone)
        rows == [r \in 1..Len(src.rows) |->
                    IF has_demand
                    THEN [timestamp |-> timestamp[r],
                          region |-> col("region")[r],
                          price |-> ToNumeric(col("price")[r]),
                          demand |-> ToNumeric(col("demand")[r])]
                    ELSE [timestamp |-> timestamp[r],
                          region |-> col("region")[r],
                          price |-> ToNumeric(col("price")[r])]]
    IN IF CoerceRequiredColumns(rows) # None THEN CoerceRequiredColumns(rows)
       ELSE [kind |-> "table",
             columns |-> IF has_demand
                         THEN <<"timestamp", "region", "price", "demand">>
                         ELSE <<"timestamp", "region", "price">>,
             rows |-> SortRowsByTimestamp(rows)]

\* load_csv, from the frame pd.read_csv returned.
LoadCsv(src, o) ==
    LET headers == HeadersOf(src)
        ovr == o.column_overrides
    IN IF src.rows = <<>> THEN LoadError("EmptySource", "")
       ELSE IF ResolveRequired(headers, RequiredRoles, ovr) # None
       THEN ResolveRequired(headers, RequiredRoles, ovr)
       ELSE IF ResolveColumn(headers, "demand", ovr).kind = "error"
       THEN ResolveColumn(headers, "demand", ovr)
       ELSE Standardise(src, o)

\* The sources load_csv is tried on.
MaxSourceRows == 2

Column(base, caps, field) == [header |-> Header(base, caps), field |-> field]

Layouts ==
    {<<Column("settlementdate", "upper", "timestamp"), Column("regionid", "upper", "region"),
       Column("rrp", "upper", "price"), Column("totaldemand", "upper", "demand")>>,
     <<Column("timestamp", "lower", "timestamp"), Column("region", "lower", "region"),
       Column("price", "lower", "price")>>,
     <<Column("timestamp", "lower", "timestamp"), Column("region", "lower", "region")>>,
     <<Column("time", "lower", "timestamp"), Column("zone", "lower", "region"),
       Column("price_value", "lower", "price")>>,
     <<Column("region", "upper", "region"), Column("rrp", "lower", "price"),
       Column("demand", "lower", "demand")>>}

SourceRows ==
    [timestamp : {[k |-> "ts", wall |-> 1], [k |-> "ts", wall |-> 2], [k |-> "text"]},
     region : {[k |-> "str", s |-> "VIC1"], [k |-> "na"]},
     price : {[k |-> "num", v |-> 50], [k |-> "text"]},
     demand : {[k |-> "num", v |-> 1000]}]

Sources ==
    [layout : Layouts,
     rows : UNION {[1..n -> SourceRows] : n \in 0..MaxSourceRows},
     zone : {"naive", "+10:00"}]

\* tests/test_data_loader.py: column_overrides of test_load_csv_respects_overrides
TestOverrides ==
    [r \in {"timestamp", "region", "price"} |->
        CASE r = "timestamp" -> Header("time", "lower")
          [] r = "region" -> Header("zone", "lower")
          [] r = "price" -> Header("price_value", "lower")]

LoadOverrides ==
    {EmptyOverrides, TestOverrides,
     [r \in {"demand"} |-> Header("load", "lower")],
     [r \in {"price"} |-> Header("rrp", "upper")]}

Timezones == {NoTimezone, "", "UTC", "Australia/Melbourne"}

Options == [column_overrides : LoadOverrides, timezone : Timezones]

LoadUnused ==
    /\ source = None
    /\ opts = None
    /\ loaded = None

\* One call of load_csv.
LoadCsvCall ==
    /\ source # None
    /\ loaded = None
    /\ loaded' = LoadCsv(source, opts)
    /\ UNCHANGED <<source, opts, batteryVars, resolveVars, mergeVars, spikeVars,
                   filterVars>>

\* ------------------------------------------------------------- load_csvs
MaxSources == 2

\* tests/test_data_loader.py: the header of part1.csv and part2.csv
MergeLayout ==
    <<Column("settlementdate", "upper", "timestamp"),
      Column("regionid", "upper", "region"), Column("rrp", "upper", "price")>>

MergeCell(wall, name, value) ==
    [timestamp |-> [k |-> "ts", wall |-> wall],
     region |-> [k |-> "str", s |-> name],
     price |-> [k |-> "num", v |-> value]]

\* Two rows of one (timestamp, region) pair with different prices.
MergeRows == {MergeCell(2, "VIC1", 50), MergeCell(2, "VIC1", 70)}

\* A source with a row of another region at the same time.
OtherRegionSource ==
    [layout |-> MergeLayout, rows |-> <<MergeCell(2, "NSW1", 60)>>, zone |-> "naive"]

\* A source without a price column.
NoPriceSource ==
    [layout |-> <<Column("timestamp", "lower", "timestamp"),
                  Column("region", "lower", "region")>>,
     rows |-> <<MergeCell(2, "VIC1", 50)>>,
     zone |-> "naive"]

\* A source whose timestamps are written with the offset +10:00.
ZonedSource ==
    [layout |-> MergeLayout, rows |-> <<MergeCell(11, "VIC1", 80)>>, zone |-> "+10:00"]

\* A source with a demand column and an earlier timestamp.
DemandSource ==
    [layout |-> MergeLayout \o <<Column("totaldemand", "upper", "demand")>>,
     rows |-> <<[timestamp |-> [k |-> "ts", wall |-> 1],
                 region |-> [k |-> "str", s |-> "VIC1"],
                 price |-> [k |-> "num", v |-> 80],
                 demand |-> [k |-> "num", v |-> 1000]]>>,
     zone |-> "naive"]

MergeSources ==
    [layout : {MergeLayout},
     rows : UNION {[1..n -> MergeRows] : n \in 0..MaxSourceRows},
     zone : {"naive"}]
    \cup {OtherRegionSource, NoPriceSource, ZonedSource, DemandSource}

FileLists == UNION {[1..n -> MergeSources] : n \in 0..MaxSources}

MergeOptions == [column_overrides : {EmptyOverrides}, timezone : {NoTimezone, "UTC"}]

HasDemand(frame) == \E k \in 1..Len(frame.columns) : frame.columns[k] = "demand"

\* The rows of one frame as pd.concat lays them out: a frame without a demand
\* column gets NaN in the demand column another frame brings.
ConcatRows(frame, with_demand) ==
    IF with_demand /\ ~HasDemand(frame)
    THEN [k \in 1..Len(frame.rows) |->
            [timestamp |-> frame.rows[k].timestamp, region |-> frame.rows[k].region,
             price |-> frame.rows[k].price, demand |-> NaN]]
    ELSE frame.rows

RECURSIVE ConcatFrames(_, _)
ConcatFrames(fs, with_demand) ==
    IF fs = <<>> THEN <<>>
    ELSE ConcatRows(Head(fs), with_demand) \o ConcatFrames(Tail(fs), with_demand)

\* pd.concat(frames, ignore_index=True)
Concat(fs) ==
    LET with_demand == \E k \in 1..Len(fs) : HasDemand(fs[k])
    IN [kind |-> "table",
        columns |-> IF with_demand
                    THEN <<"timestamp", "region", "price", "demand">>
                    ELSE <<"timestamp", "region", "price">>,
        rows |-> ConcatFrames(fs, with_demand)]

\* Equality of two timestamp values: zoned ones are equal when they are the
\* same instant, and a naive one never equals a zoned one.
TimestampEq(a, b) == a.t = b.t /\ (a.tz = "naive") = (b.tz = "naive")

\* Mutant: duplicates told by the timestamp alone.
SameSubsetTimestampOnly(a, b) == TimestampEq(a.timestamp, b.timestamp)

\* subset = ["timestamp", "region"]
SameSubset(a, b) == TimestampEq(a.timestamp, b.timestamp) /\ a.region = b.region

\* DataFrame.drop_duplicates(subset=subset, keep="first")
DropDuplicates(rows) ==
    LET kept(k) == \A j \in 1..(k - 1) : ~SameSubset(rows[j], rows[k])
        RECURSIVE Keep(_)
        Keep(k) == IF k > Len(rows) THEN <<>>
                   ELSE (IF kept(k) THEN <<rows[k]>> ELSE <<>>) \o Keep(k + 1)
    IN Keep(1)

\* Ordering a naive timestamp against a zoned one raises TypeError.
Comparable(rows) ==
    \A i, j \in 1..Len(rows) :
        (rows[i].timestamp.tz = "naive") = (rows[j].timestamp.tz = "naive")

\* load_csvs once every frame is loaded: concat, drop_duplicates, sort_values.
Combine(fs, drop) ==
    LET all == Concat(fs)
        rows == IF drop THEN DropDuplicates(all.rows) ELSE all.rows
    IN IF ~Comparable(rows) THEN LoadError("TypeError", "timestamp")
       ELSE [all EXCEPT !.rows = SortRowsByTimestamp(rows)]

\* Mutant: an empty list of sources gives an empty table.
NoSourcesEmptyTable ==
    [kind |-> "table", columns |-> <<"timestamp", "region", "price">>, rows |-> <<>>]

\* raise DataValidationError("No CSV files provided.")
NoSourcesError == LoadError("NoSources", "")

MergeUnused ==
    /\ file_paths = <<>>
    /\ options = None
    /\ drop_duplicates = TRUE
    /\ merge_pc = "unused"
    /\ frames = <<>>
    /\ combined = None

\* if not file_paths: raise DataValidationError("No CSV files provided.")
LoadCsvsEnter ==
    /\ merge_pc = "start"
    /\ IF file_paths = <<>>
       THEN /\ combined' = NoSourcesError
            /\ merge_pc' = "failed"
       ELSE /\ combined' = combined
            /\ merge_pc' = "load"
    /\ UNCHANGED <<file_paths, options, drop_duplicates, frames, batteryVars,
                   resolveVars, loadVars, spikeVars, filterVars>>

\* One element of [load_csv(path, options=options) for path in file_paths].
LoadCsvsLoad ==
    /\ merge_pc = "load"
    /\ LET frame == LoadCsv(file_paths[Len(frames) + 1], options)
       IN IF frame.kind = "error"
          THEN /\ combined' = frame
               /\ merge_pc' = "failed"
               /\ frames' = frames
          ELSE /\ combined' = combined
               /\ frames' = Append(frames, frame)
               /\ merge_pc' = IF Len(frames) + 1 = Len(file_paths)
                              THEN "combine" ELSE "load"
    /\ UNCHANGED <<file_paths, options, drop_duplicates, batteryVars,
                   resolveVars, loadVars, spikeVars, filterVars>>

\* concat, drop_duplicates, sort_values, return.
LoadCsvsCombine ==
    /\ merge_pc = "combine"
    /\ combined' = Combine(frames, drop_duplicates)
    /\ merge_pc' = "done"
    /\ UNCHANGED <<file_paths, options, drop_duplicates, frames, batteryVars,
                   resolveVars, loadVars, spikeVars, filterVars>>

\* --------------------------------------------------------- detect_spikes
\* tests/test_analysis.py: the prices of _make_df, hourly
SpikeTestTable ==
    <<[timestamp |-> 0, price |-> 50], [timestamp |-> 1, price |-> 200],
      [timestamp |-> 2, price |-> 100], [timestamp |-> 3, price |-> 400]>>

Num(v) == [kind |-> "num", v |-> v]

\* threshold: None or a price in $/MWh
Thresholds == {None} \cup {Num(v) : v \in {-10, 0, 20, 300}}

\* quantile: None or a fraction in quarters
Quantiles == {None} \cup {Num(v) : v \in {-1, 0, 2, 3, 4, 5}}

AnalysisError(error) == [kind |-> "error", error |-> error]

\* Mutant: a row equal to the cutoff is not an event.
EventsAbove(t, cutoff4) == SelectSeq(t, LAMBDA row : 4 * row.price > cutoff4)

\* df[df["price"] >= cutoff]; cutoff4 is four times the cutoff
EventsAtOrAbove(t, cutoff4) == SelectSeq(t, LAMBDA row : 4 * row.price >= cutoff4)

RECURSIVE SumPrices(_)
SumPrices(t) == IF t = <<>> THEN 0 ELSE Head(t).price + SumPrices(Tail(t))

\* events["price"].max()
MaxPrice(t) == CHOOSE m \in {t[k].price : k \in 1..Len(t)} :
                  \A k \in 1..Len(t) : t[k].price <= m

\* events["price"].mean(), as the fraction sum / count
MeanPrice(t) == [num |-> SumPrices(t), den |-> Len(t)]

\* The stats mapping; cutoff is kept as four times its value.
SpikeStats(events, cutoff4) ==
    IF events = <<>>
    THEN [cutoff |-> cutoff4, spike_count |-> 0]
    ELSE [cutoff |-> cutoff4, spike_count |-> Len(events),
          max_spike |-> MaxPrice(events), mean_spike |-> MeanPrice(events)]

\* cutoff = threshold, or the price quantile when no threshold is given
SpikeCutoff(t, thr, q) ==
    IF thr # None THEN [kind |-> "cutoff", cutoff |-> 4 * thr.v]
    ELSE IF q = None \/ ~(0 <= q.v /\ q.v <= 4) THEN AnalysisError("InvalidQuantile")
    ELSE [kind |-> "cutoff",
          cutoff |-> SeriesQuantile([k \in 1..Len(t) |-> t[k].price], q.v)]

DetectSpikes(t, thr, q) ==
    IF t = <<>> THEN AnalysisError("EmptyTable")
    ELSE IF thr = None /\ q = None THEN AnalysisError("MissingCriterion")
    ELSE LET c == SpikeCutoff(t, thr, q)
         IN IF c.kind = "error" THEN c
            ELSE LET events == EventsAtOrAbove(t, c.cutoff)
                 IN [kind |-> "spikes", events |-> events,
                     stats |-> SpikeStats(events, c.cutoff)]

SpikeUnused ==
    /\ spike_df = <<>>
    /\ threshold = None
    /\ quantile = None
    /\ spikes = None

\* One call of detect_spikes.
DetectSpikesCall ==
    /\ spikes = None
    /\ spikes' = DetectSpikes(spike_df, threshold, quantile)
    /\ UNCHANGED <<spike_df, threshold, quantile, batteryVars, resolveVars,
                   loadVars, mergeVars, filterVars>>

\* ----------------------------------------------------------- filter_data
MaxFilterRows == 2

FilterTimes == {1, 2, 3}

\* str.upper()
Upper(name) == [name EXCEPT !.caps = "upper"]

RegionNames == {Header("vic1", "upper"), Header("vic1", "lower"), Header("nsw1", "upper")}

\* The timezone of the table's timestamp column: None ("naive") or a zone.
TableZones == {"naive", "UTC"}

FilterRows(zone) ==
    [timestamp : {[kind |-> "ts", t |-> h, tz |-> zone] : h \in FilterTimes},
     region : RegionNames]

FilterTables ==
    UNION {[1..n -> FilterRows(zone)] : n \in 0..MaxFilterRows, zone \in TableZones}

\* region: None, the empty string, or a name
EmptyString == Header("", "lower")

RegionChoices ==
    {None, EmptyString, Header("vic1", "upper"), Header("vic1", "mixed"), Header("qld1", "upper")}

\* start / end: None, a naive time, a time written with +10:00, or text that
\* is not a time.  Written value and zone, as pd.to_datetime reads them.
BoundValue(cell, zone) == [cell |-> cell, zone |-> zone]

BoundChoices ==
    {None,
     BoundValue([k |-> "ts", wall |-> 2], "naive"),
     BoundValue([k |-> "ts", wall |-> 12], "+10:00"),
     BoundValue([k |-> "ts", wall |-> 2], "+10:00"),
     BoundValue([k |-> "text"], "naive")}

\* filtered["timestamp"].dt.tz (selecting rows keeps the column's zone)
TableTz(rows) == IF rows = <<>> THEN "naive" ELSE rows[1].timestamp.tz

\* Timestamp.tz_localize(None): the zone is dropped, the wall clock kept
StripZone(ts) == [kind |-> "ts", t |-> ts.t + UtcOffset(ts.tz), tz |-> "naive"]

\* _coerce_timestamp(value, tz)
CoerceTimestamp(value, tz) ==
    IF value = None THEN None
    ELSE LET ts == ToDatetime(value.cell, value.zone)
         IN IF ts = NaT THEN AnalysisError("InvalidDatetime")
            ELSE IF tz # "naive" /\ ts.tz = "naive"
            THEN (IF TzLocalize(ts, tz) = NaT THEN AnalysisError("NonExistentTime")
                  ELSE TzLocalize(ts, tz))
            ELSE IF tz # "naive" THEN TzConvert(ts, tz)
            ELSE IF ts.tz # "naive" THEN StripZone(ts)
            ELSE ts

\* Mutant: the lower bound is exclusive.
AtOrAfterExclusive(ts, bound) == ts.t > bound.t

\* filtered["timestamp"] >= start_ts
AtOrAfter(ts, bound) == ts.t >= bound.t

\* filtered["timestamp"] <= end_ts
AtOrBefore(ts, bound) == ts.t <= bound.t

FilterData(t, reg, st, en) ==
    LET by_region == IF reg \in {None, EmptyString} THEN t
                     ELSE SelectSeq(t, LAMBDA row : Upper(row.region) = Upper(reg))
        tz == TableTz(t)
        start_ts == CoerceTimestamp(st, tz)
        end_ts == CoerceTimestamp(en, tz)
        from_start == IF start_ts = None THEN by_region
                      ELSE SelectSeq(by_region,
                                     LAMBDA row : AtOrAfter(row.timestamp, start_ts))
        to_end == IF end_ts = None THEN from_start
                  ELSE SelectSeq(from_start,
                                 LAMBDA row : AtOrBefore(row.timestamp, end_ts))
    IN IF start_ts.kind = "error" THEN start_ts
       ELSE IF end_ts.kind = "error" THEN end_ts
       ELSE [kind |-> "table", rows |-> to_end]

FilterUnused ==
    /\ filter_df = <<>>
    /\ region = None
    /\ start = None
    /\ end = None
    /\ filtered = None

\* One call of filter_data.
FilterDataCall ==
    /\ filtered = None
    /\ filtered' = FilterData(filter_df, region, start, end)
    /\ UNCHANGED <<filter_df, region, start, end, batteryVars, resolveVars,
                   loadVars, mergeVars, spikeVars>>

\* ------------------------------------------------------ battery_backtest
\* Mutant: the efficiency guard written 0 <= round_trip_efficiency <= 1.
ValidationErrorClosedZero(t, c) ==
    IF t = <<>> THEN [kind |-> "error", error |-> "EmptyTable"]
    ELSE IF ~(0 <= c.round_trip_efficiency /\ c.round_trip_efficiency <= 10)
    THEN [kind |-> "error", error |-> "InvalidConfig:round_trip_efficiency"]
    ELSE IF ~(0 <= c.low_quantile /\ c.low_quantile < c.high_quantile
              /\ c.high_quantile <= 4)
    THEN [kind |-> "error", error |-> "InvalidConfig:quantiles"]
    ELSE None

\* The three guards at the top of battery_backtest, in order.
ValidationError(t, c) ==
    IF t = <<>> THEN [kind |-> "error", error |-> "EmptyTable"]
    ELSE IF ~(0 < c.round_trip_efficiency /\ c.round_trip_efficiency <= 10)
    THEN [kind |-> "error", error |-> "InvalidConfig:round_trip_efficiency"]
    ELSE IF ~(0 <= c.low_quantile /\ c.low_quantile < c.high_quantile
              /\ c.high_quantile <= 4)
    THEN [kind |-> "error", error |-> "InvalidConfig:quantiles"]
    ELSE None

\* prices = sorted_df["price"]
SortedPrices(t) ==
    LET sorted_df == SortValuesByTimestamp(t)
    IN [k \in 1..Len(t) |-> sorted_df[k].price]

\* Mutant: the state of charge is kept across calls instead of being zeroed.
InitialSocCarried == soc

\* soc = 0.0
InitialSoc == 0

\* price <= low_thr and soc < capacity_mwh
ChargeGuard(price, s, c) == 4 * price <= low_thr /\ s < 2 * c.capacity_mwh

\* Mutant: the remaining capacity is not taken into account.
AllowedInUnclamped(s, c) == c.power_mw * interval_hours

\* allowed_in = min(power_mw * interval_hours, capacity_mwh - soc)
AllowedIn(s, c) == Min(c.power_mw * interval_hours, 2 * c.capacity_mwh - s)

\* Mutant: strict comparison against the high threshold.
DischargeGuardStrict(price, s) == 4 * price > high_thr /\ s > 0

\* price >= high_thr and soc > 0
DischargeGuard(price, s) == 4 * price >= high_thr /\ s > 0

\* allowed_out = min(power_mw * interval_hours, soc)
AllowedOut(s, c) == Min(c.power_mw * interval_hours, s)

\* Mutant: nothing is lost on discharge.
DeliveredLossless(allowed_out, c) == allowed_out * 10

\* delivered = allowed_out * round_trip_efficiency
Delivered(allowed_out, c) == allowed_out * c.round_trip_efficiency

\* Mutant: only the delivered energy leaves the battery.
SocAfterDischargeDelivered(s, allowed_out, c) ==
    s - (allowed_out * c.round_trip_efficiency) \div 10

\* soc -= allowed_out
SocAfterDischarge(s, allowed_out, c) == s - allowed_out

\* Mutant: the difference taken the wrong way round.
ProfitFlipped(rev, cst) == 10 * cst - rev

\* profit = revenue - cost, in twentieths
Profit(rev, cst) == rev - 10 * cst

\* The call: validation, sorting, thresholds, interval and the zeroed totals.
Enter ==
    /\ pc = "idle"
    /\ IF ValidationError(df, cfg) # None
       THEN /\ pc' = "failed"
            /\ result' = ValidationError(df, cfg)
            /\ UNCHANGED <<prices, idx, low_thr, high_thr, interval_hours, soc, cost,
                           revenue, charge_events, discharge_events,
                           energy_from_grid, energy_to_grid>>
       ELSE /\ prices' = SortedPrices(df)
            /\ low_thr' = SeriesQuantile(SortedPrices(df), cfg.low_quantile)
            /\ high_thr' = SeriesQuantile(SortedPrices(df), cfg.high_quantile)
            /\ interval_hours' = EstimateIntervalHours(SortValuesByTimestamp(df))
            /\ soc' = InitialSoc
            /\ cost' = 0
            /\ revenue' = 0
            /\ charge_events' = 0
            /\ discharge_events' = 0
            /\ energy_from_grid' = 0
            /\ energy_to_grid' = 0
            /\ idx' = 1
            /\ pc' = "charge"
            /\ result' = None
    /\ UNCHANGED <<df, cfg, prev, resolveVars, loadVars,
                   mergeVars, spikeVars, filterVars>>

\* The charge check of row idx.
ChargeCheck ==
    /\ pc = "charge"
    /\ LET price == prices[idx]
           allowed_in == AllowedIn(soc, cfg)
       IN IF ChargeGuard(price, soc, cfg) /\ allowed_in > 0
          THEN /\ soc' = soc + allowed_in
               /\ cost' = cost + price * allowed_in
               /\ energy_from_grid' = energy_from_grid + allowed_in
               /\ charge_events' = charge_events + 1
          ELSE UNCHANGED <<soc, cost, energy_from_grid, charge_events>>
    /\ pc' = "discharge"
    /\ UNCHANGED <<df, cfg, prices, idx, low_thr, high_thr, interval_hours, revenue,
                   discharge_events, energy_to_grid, result, prev, resolveVars,
                   loadVars,
                   mergeVars, spikeVars, filterVars>>

\* The discharge check of row idx, then the loop moves on.
DischargeCheck ==
    /\ pc = "discharge"
    /\ LET price == prices[idx]
           allowed_out == AllowedOut(soc, cfg)
           delivered == Delivered(allowed_out, cfg)
       IN IF DischargeGuard(price, soc) /\ allowed_out > 0
          THEN /\ soc' = SocAfterDischarge(soc, allowed_out, cfg)
               /\ revenue' = revenue + price * delivered
               /\ energy_to_grid' = energy_to_grid + delivered
               /\ discharge_events' = discharge_events + 1
          ELSE UNCHANGED <<soc, revenue, energy_to_grid, discharge_events>>
    /\ idx' = idx + 1
    /\ pc' = IF idx = Len(prices) THEN "return" ELSE "charge"
    /\ UNCHANGED <<df, cfg, prices, low_thr, high_thr, interval_hours, cost,
                   energy_from_grid, charge_events, result, prev, resolveVars,
                   loadVars,
                   mergeVars, spikeVars, filterVars>>

\* cycles, profit and the BatteryResult.
Return ==
    /\ pc = "return"
    /\ result' = [kind |-> "result",
                  total_profit |-> Profit(revenue, cost),
                  charge_events |-> charge_events,
                  discharge_events |-> discharge_events,
                  cycles |-> Min(charge_events, discharge_events),
                  energy_from_grid_mwh |-> energy_from_grid,
                  energy_to_grid_mwh |-> energy_to_grid,
                  low_threshold |-> low_thr,
                  high_threshold |-> high_thr,
                  interval_hours |-> interval_hours]
    /\ pc' = "done"
    /\ UNCHANGED <<df, cfg, prices, idx, low_thr, high_thr, interval_hours, soc, cost,
                   revenue, charge_events, discharge_events, energy_from_grid,
                   energy_to_grid, prev, resolveVars, loadVars,
                   mergeVars, spikeVars, filterVars>>

\* The caller calls battery_backtest again on the same table, with the same
\* arguments or with a higher round_trip_efficiency.  The finished call's frame
\* is dead; whatever it left behind is only overwritten by the next Enter.
CallAgain ==
    /\ pc \in {"done", "failed"}
    /\ prev = None
    /\ \E e \in {x \in Efficiencies : x >= cfg.round_trip_efficiency} :
           cfg' = [cfg EXCEPT !.round_trip_efficiency = e]
    /\ prev' = [kind |-> "call", cfg |-> cfg, result |-> result]
    /\ pc' = "idle"
    /\ UNCHANGED <<df, prices, idx, low_thr, high_thr, interval_hours, soc, cost,
                   revenue, charge_events, discharge_events, energy_from_grid,
                   energy_to_grid, result, resolveVars, loadVars,
                   mergeVars, spikeVars, filterVars>>

BatteryIdle ==
    /\ pc = "idle"
    /\ prices = <<>>
    /\ idx = 0
    /\ low_thr = 0
    /\ high_thr = 0
    /\ interval_hours = 0
    /\ soc = 0
    /\ cost = 0
    /\ revenue = 0
    /\ charge_events = 0
    /\ discharge_events = 0
    /\ energy_from_grid = 0
    /\ energy_to_grid = 0
    /\ result = None
    /\ prev = None

Init ==
    /\ df \in Tables \cup {TestTable}
    /\ cfg \in Configs
    /\ BatteryIdle
    /\ ResolveUnused
    /\ LoadUnused
    /\ MergeUnused
    /\ SpikeUnused
    /\ FilterUnused

Next == Enter \/ ChargeCheck \/ DischargeCheck \/ Return \/ CallAgain

Spec == Init /\ [][Next]_vars

\* One call of battery_backtest, step by step.
InitRun == Init

NextRun == Enter \/ ChargeCheck \/ DischargeCheck \/ Return

SpecRun == InitRun /\ [][NextRun]_vars

\* _resolve_column on its own.
InitResolve ==
    /\ columns \in ColumnLists
    /\ target \in Roles
    /\ overrides \in OverrideChoices
    /\ resolved = None
    /\ df = <<>>
    /\ cfg = TestConfig
    /\ BatteryIdle
    /\ LoadUnused
    /\ MergeUnused
    /\ SpikeUnused
    /\ FilterUnused

NextResolve == Resolve

SpecResolve == InitResolve /\ [][NextResolve]_vars

\* load_csv on its own.
InitLoad ==
    /\ source \in Sources
    /\ opts \in Options
    /\ loaded = None
    /\ df = <<>>
    /\ cfg = TestConfig
    /\ BatteryIdle
    /\ ResolveUnused
    /\ MergeUnused
    /\ SpikeUnused
    /\ FilterUnused

NextLoad == LoadCsvCall

SpecLoad == InitLoad /\ [][NextLoad]_vars

BatteryUnused ==
    /\ df = <<>>
    /\ cfg = TestConfig
    /\ BatteryIdle

\* load_csvs on its own.
InitMerge ==
    /\ file_paths \in FileLists
    /\ options \in MergeOptions
    /\ drop_duplicates \in BOOLEAN
    /\ merge_pc = "start"
    /\ frames = <<>>
    /\ combined = None
    /\ BatteryUnused
    /\ ResolveUnused
    /\ LoadUnused
    /\ SpikeUnused
    /\ FilterUnused

NextMerge == LoadCsvsEnter \/ LoadCsvsLoad \/ LoadCsvsCombine

SpecMerge == InitMerge /\ [][NextMerge]_vars

\* detect_spikes on its own.
InitSpikes ==
    /\ spike_df \in Tables \cup {SpikeTestTable}
    /\ threshold \in Thresholds
    /\ quantile \in Quantiles
    /\ spikes = None
    /\ BatteryUnused
    /\ ResolveUnused
    /\ LoadUnused
    /\ MergeUnused
    /\ FilterUnused

NextSpikes == DetectSpikesCall

SpecSpikes == InitSpikes /\ [][NextSpikes]_vars

\* filter_data on its own.
InitFilter ==
    /\ filter_df \in FilterTables
    /\ region \in RegionChoices
    /\ start \in BoundChoices
    /\ end \in BoundChoices
    /\ filtered = None
    /\ BatteryUnused
    /\ ResolveUnused
    /\ LoadUnused
    /\ MergeUnused
    /\ SpikeUnused

NextFilter == FilterDataCall

SpecFilter == InitFilter /\ [][NextFilter]_vars

\* ================================================================ claims
Running == {"charge", "discharge", "return"}

\* C1: with capacity > 0 and power > 0, state_of_charge is 0 when the loop
\* starts and stays within [0, capacity] after every charge check and every
\* discharge check.
C1_SocWithinCapacity ==
    (pc \in Running \cup {"done"} /\ cfg.capacity_mwh > 0 /\ cfg.power_mw > 0)
        => /\ 0 <= soc
           /\ soc <= 2 * cfg.capacity_mwh
           /\ (pc = "charge" /\ idx = 1 => soc = 0)

\* C1 witness: a charge check has just filled the battery to capacity where the
\* power limit alone would have overfilled it.
C1_Witness ==
    /\ pc = "discharge"
    /\ cfg.capacity_mwh > 0
    /\ charge_events >= 1
    /\ soc = 2 * cfg.capacity_mwh
    /\ cfg.power_mw * interval_hours > 2 * cfg.capacity_mwh

\* A finished call that follows an earlier finished call on the same table.
TwoResults ==
    /\ pc = "done"
    /\ prev # None
    /\ prev.result.kind = "result"

\* C2 as stated: for every price series, a call with a higher (or equal)
\* round_trip_efficiency and everything else the same never has a lower
\* total_profit.
C2_MonotoneAllSeries ==
    (TwoResults /\ prev.cfg.round_trip_efficiency <= cfg.round_trip_efficiency)
        => prev.result.total_profit <= result.total_profit

\* C2 amended: the same, for the series whose high threshold is not negative
\* (every discharge then happens at a price >= 0).
C2_MonotoneNonNegativeHigh ==
    (/\ TwoResults
     /\ prev.cfg.round_trip_efficiency <= cfg.round_trip_efficiency
     /\ high_thr >= 0)
        => prev.result.total_profit <= result.total_profit

\* C2 witness: a series with a negative price and a non-negative high
\* threshold, run at two efficiencies, the higher one earning strictly more.
C2_Witness ==
    /\ TwoResults
    /\ prev.cfg.round_trip_efficiency < cfg.round_trip_efficiency
    /\ high_thr >= 0
    /\ \E k \in 1..Len(prices) : prices[k] < 0
    /\ result.discharge_events >= 1
    /\ prev.result.total_profit < result.total_profit

\* C3: a call with the same table and the same arguments as the call before it
\* ends the same way, with a BatteryResult equal in every field (or the same
\* error), whatever the earlier call left behind.
C3_Deterministic ==
    (pc \in {"done", "failed"} /\ prev # None /\ prev.cfg = cfg)
        => result = prev.result

\* C3 witness: the second of two identical calls has finished, and the first
\* one had ended with energy still in the battery.
C3_Witness ==
    /\ TwoResults
    /\ prev.cfg = cfg
    /\ result.charge_events >= 1
    /\ soc > 0

\* A row priced at or below the low threshold comes before a row priced at or
\* above the high threshold, in chronological order.
LowBeforeHigh ==
    \E i, j \in 1..Len(prices) :
        i < j /\ 4 * prices[i] <= low_thr /\ 4 * prices[j] >= high_thr

\* C4: when a low-priced row precedes a high-priced row (capacity > 0,
\* power > 0) the result has charge_events, discharge_events and cycles >= 1;
\* on the test series 20, 100, 200, 50 with the default arguments the
\* thresholds are 42.5 and 125 and total_profit is positive.
C4_LowThenHighTrades ==
    /\ (pc = "done" /\ cfg.capacity_mwh > 0 /\ cfg.power_mw > 0 /\ LowBeforeHigh)
           => /\ result.charge_events >= 1
              /\ result.discharge_events >= 1
              /\ result.cycles >= 1
    /\ (pc = "done" /\ df = TestTable /\ cfg = TestConfig)
           => /\ result.low_threshold = 170
              /\ result.high_threshold = 500
              /\ result.total_profit > 0

\* C4 witness: the test series has been run with the default arguments.
C4_Witness ==
    /\ pc = "done"
    /\ df = TestTable
    /\ cfg = TestConfig
    /\ LowBeforeHigh
    /\ result.cycles >= 1

\* The inputs battery_backtest is documented to reject.
EmptyTable == df = <<>>
BadEfficiency == ~(0 < cfg.round_trip_efficiency /\ cfg.round_trip_efficiency <= 10)
BadQuantiles ==
    ~(0 <= cfg.low_quantile /\ cfg.low_quantile < cfg.high_quantile
      /\ cfg.high_quantile <= 4)
Rejected == EmptyTable \/ BadEfficiency \/ BadQuantiles

\* C5: the call fails exactly on the rejected inputs, with the error of a
\* violated precondition, no result and no simulation step; on every other
\* input the loop runs over the rows and a result is returned.
C5_FailsExactlyOnRejected ==
    /\ pc = "failed" =>
           /\ Rejected
           /\ result.kind = "error"
           /\ result.error = "EmptyTable" => EmptyTable
           /\ result.error = "InvalidConfig:round_trip_efficiency" => BadEfficiency
           /\ result.error = "InvalidConfig:quantiles" => BadQuantiles
           /\ prev = None =>
                  /\ idx = 0
                  /\ charge_events = 0
                  /\ discharge_events = 0
                  /\ prices = <<>>
    /\ pc \in Running \cup {"done"} => ~Rejected
    /\ pc \in {"charge", "discharge"} => idx \in 1..Len(prices)
    /\ pc = "return" => idx = Len(prices) + 1
    /\ pc = "done" => result.kind = "result"

\* C5 witness: a non-empty table and a valid efficiency, rejected for its
\* quantiles before anything ran.
C5_Witness ==
    /\ pc = "failed"
    /\ prev = None
    /\ ~EmptyTable
    /\ ~BadEfficiency
    /\ result.error = "InvalidConfig:quantiles"
    /\ idx = 0

\* The alias table as the specification gives it, role by role in priority
\* order.
AliasTable ==
    [timestamp |-> <<"timestamp", "datetime", "settlementdate", "trading_interval">>,
     region |-> <<"region", "regionid">>,
     price |-> <<"price", "rrp">>,
     demand |-> <<"demand", "totaldemand", "total_demand", "demandmw">>]

\* C6: with an override for the role, _resolve_column returns exactly the
\* override when it is among the headers verbatim, and raises the override
\* error naming it otherwise; aliases play no part.
C6_OverrideHasPriority ==
    (resolved # None /\ target \in DOMAIN overrides)
        => IF \E k \in 1..Len(columns) : columns[k] = overrides[target]
           THEN resolved = [kind |-> "column", column |-> overrides[target]]
           ELSE /\ resolved.kind = "error"
                /\ resolved.error = "InvalidOverride"
                /\ resolved.role = target
                /\ resolved.override = overrides[target]

\* C6 witness: the override is returned although another header matches an
\* alias of the role and the override itself matches none.
C6_Witness ==
    /\ resolved # None
    /\ target \in DOMAIN overrides
    /\ resolved = [kind |-> "column", column |-> overrides[target]]
    /\ \A a \in 1..Len(AliasTable[target]) : resolved.column.base # AliasTable[target][a]
    /\ \E k \in 1..Len(columns), a \in 1..Len(AliasTable[target]) :
           columns[k].base = AliasTable[target][a]

\* The positions in the role's alias list of the aliases some header equals
\* ignoring case.
MatchingAliases(cols, role) ==
    {a \in 1..Len(AliasTable[role]) :
        \E k \in 1..Len(cols) : cols[k].base = AliasTable[role][a]}

\* C7: without an override for the role, _resolve_column returns a header that
\* equals, ignoring case, the earliest alias of the role that any header
\* matches, and not-found when none matches; SETTLEMENTDATE, REGIONID, RRP,
\* TOTALDEMAND resolve to timestamp, region, price, demand.
C7_EarliestAliasWins ==
    /\ (resolved # None /\ target \notin DOMAIN overrides)
           => LET m == MatchingAliases(columns, target)
              IN IF m = {} THEN resolved = [kind |-> "notfound"]
                 ELSE /\ resolved.kind = "column"
                      /\ \E k \in 1..Len(columns) : columns[k] = resolved.column
                      /\ \E a \in m :
                             /\ \A b \in m : a <= b
                             /\ resolved.column.base = AliasTable[target][a]
    /\ (resolved # None /\ target \notin DOMAIN overrides /\ columns = TestHeaders)
           => /\ resolved.kind = "column"
              /\ target = "timestamp" => resolved.column = TestHeaders[1]
              /\ target = "region" => resolved.column = TestHeaders[2]
              /\ target = "price" => resolved.column = TestHeaders[3]
              /\ target = "demand" => resolved.column = TestHeaders[4]

\* C7 witness: an upper-case header is returned for the role's first alias
\* while an earlier column matches a later alias.
C7_Witness ==
    /\ resolved # None
    /\ target \notin DOMAIN overrides
    /\ resolved.kind = "column"
    /\ resolved.column.caps = "upper"
    /\ resolved.column.base = AliasTable[target][1]
    /\ Len(columns) = 2
    /\ columns[1].base = AliasTable[target][2]
    /\ columns[2] = resolved.column

\* What the source and the options say about a role, read off the headers.
HasOverride(role) == role \in DOMAIN opts.column_overrides
OverridePresent(role) ==
    \E k \in 1..Len(source.layout) :
        source.layout[k].header = opts.column_overrides[role]
Resolvable(role) ==
    IF HasOverride(role) THEN OverridePresent(role)
    ELSE MatchingAliases(HeadersOf(source), role) # {}
Required == {"timestamp", "region", "price"}
FirstUnresolvable ==
    IF ~Resolvable("timestamp") THEN "timestamp"
    ELSE IF ~Resolvable("region") THEN "region"
    ELSE "price"

\* C8 as stated: whenever a required role has no resolvable column load_csv
\* fails with MissingColumn for an unresolved role, and no failure is ever due
\* to demand.
C8_MissingRequiredIsMissingColumn ==
    loaded # None =>
        /\ (\E role \in Required : ~Resolvable(role))
               => /\ loaded.kind = "error"
                  /\ loaded.error = "MissingColumn"
                  /\ loaded.role \in Required
                  /\ ~Resolvable(loaded.role)
        /\ loaded.kind = "error" => loaded.role # "demand"

\* C8 amended: a required role without a resolvable column always makes
\* load_csv fail; the failure is MissingColumn for the first such role (in the
\* order timestamp, region, price) when the source has a data row and every
\* override given for a required role names a header of the source; and
\* demand makes load_csv fail only through an override naming an absent header.
C8_MissingRequiredFails ==
    loaded # None =>
        /\ (\E role \in Required : ~Resolvable(role)) => loaded.kind = "error"
        /\ (/\ source.rows # <<>>
            /\ \A role \in Required : HasOverride(role) => OverridePresent(role)
            /\ \E role \in Required : ~Resolvable(role))
               => loaded = [kind |-> "error", error |-> "MissingColumn",
                            role |-> FirstUnresolvable]
        /\ (loaded.kind = "error" /\ loaded.role = "demand")
               => /\ HasOverride("demand")
                  /\ ~OverridePresent("demand")
                  /\ loaded.error = "InvalidOverride"

\* C8 witness: the price column is missing, and so is demand; the error names
\* price.
C8_Witness ==
    /\ loaded # None
    /\ loaded.kind = "error"
    /\ loaded.error = "MissingColumn"
    /\ loaded.role = "price"
    /\ Resolvable("timestamp")
    /\ ~Resolvable("demand")

\* Every role resolves, so load_csv gets as far as coercing the cells.
ResolutionPasses ==
    /\ source.rows # <<>>
    /\ \A role \in Required : Resolvable(role)
    /\ HasOverride("demand") => OverridePresent("demand")

TimezoneSet == opts.timezone \notin {NoTimezone, ""}

\* The rows whose cell for the role is unusable: a timestamp that is no
\* timestamp text, or names a local hour the configured zone skips; a price
\* that is no number; an empty region.
BadTimestamp(row) ==
    \/ row.timestamp.k # "ts"
    \/ /\ TimezoneSet
       /\ source.zone = "naive"
       /\ opts.timezone = "Australia/Melbourne"
       /\ row.timestamp.wall = 2
BadPrice(row) == row.price.k # "num"
BadRegion(row) == row.region.k = "na"
SomeRow(bad(_)) == \E r \in 1..Len(source.rows) : bad(source.rows[r])

\* C9: a returned table is non-empty, keeps every row of the source and has a
\* timestamp, a region and a price in every row; once the columns resolve, a
\* source with an unusable timestamp, price or region cell makes load_csv fail
\* with InvalidColumn naming the first such role in the order timestamp, price,
\* region.
C9_NoMissingRequiredValues ==
    loaded # None =>
        /\ loaded.kind = "table"
               => /\ loaded.rows # <<>>
                  /\ Len(loaded.rows) = Len(source.rows)
                  /\ \A k \in 1..Len(loaded.rows) :
                         /\ loaded.rows[k].timestamp.kind = "ts"
                         /\ loaded.rows[k].price.kind = "num"
                         /\ loaded.rows[k].region.k = "str"
        /\ (ResolutionPasses /\ SomeRow(BadTimestamp))
               => loaded = [kind |-> "error", error |-> "InvalidColumn",
                            role |-> "timestamp"]
        /\ (ResolutionPasses /\ ~SomeRow(BadTimestamp) /\ SomeRow(BadPrice))
               => loaded = [kind |-> "error", error |-> "InvalidColumn",
                            role |-> "price"]
        /\ (/\ ResolutionPasses
            /\ ~SomeRow(BadTimestamp)
            /\ ~SomeRow(BadPrice)
            /\ SomeRow(BadRegion))
               => loaded = [kind |-> "error", error |-> "InvalidColumn",
                            role |-> "region"]

\* C9 witness: two rows, one complete and one with an empty region; load_csv
\* fails for region rather than keeping one row.
C9_Witness ==
    /\ loaded # None
    /\ loaded.kind = "error"
    /\ loaded.error = "InvalidColumn"
    /\ loaded.role = "region"
    /\ Len(source.rows) = 2
    /\ ~BadRegion(source.rows[1])
    /\ BadRegion(source.rows[2])

\* C10 as stated: with LoadOptions.timezone unset or empty, every timestamp of
\* the returned table is zone-naive.
C10_NaiveWithoutTimezone ==
    (loaded.kind = "table" /\ ~TimezoneSet)
        => \A k \in 1..Len(loaded.rows) : loaded.rows[k].timestamp.tz = "naive"

\* ---------------------------------------------------------------- C11, C12
\* The rows of the loaded frames in concatenation order: frame by frame in
\* input-list order, each frame's rows as load_csv returned them.
FramePositions == {<<i, k>> : i \in 1..Len(frames), k \in 1..MaxSourceRows + 1}
Positions == {p \in FramePositions : p[2] <= Len(frames[p[1]].rows)}
RowAt(p) == frames[p[1]].rows[p[2]]
Before(p, q) == p[1] < q[1] \/ (p[1] = q[1] /\ p[2] < q[2])
SamePair(a, b) == a.timestamp = b.timestamp /\ a.region = b.region
FirstOfPair(p) == \A q \in Positions : SamePair(RowAt(q), RowAt(p)) => ~Before(q, p)
Merged == merge_pc = "done" /\ combined.kind = "table"
SameValues(a, b) == SamePair(a, b) /\ a.price = b.price
Count(rows, r) == Cardinality({k \in 1..Len(rows) : SameValues(rows[k], r)})

\* C11: with drop_duplicates true the merged table has no two rows with the
\* same (timestamp, region) pair, has one row for every pair of the sources,
\* and that row carries the price of the pair's first row in concatenation
\* order, so the row count is the number of source rows minus the repeats;
\* with drop_duplicates false every source row is in the table as often as in
\* the sources.
C11_FirstOfEachPairSurvives ==
    Merged =>
        /\ drop_duplicates
            => /\ \A j, k \in 1..Len(combined.rows) :
                      SamePair(combined.rows[j], combined.rows[k]) => j = k
               /\ \A p \in Positions :
                      FirstOfPair(p)
                          => \E k \in 1..Len(combined.rows) :
                                 SameValues(combined.rows[k], RowAt(p))
               /\ Len(combined.rows)
                      = Cardinality({p \in Positions : FirstOfPair(p)})
        /\ ~drop_duplicates
            => /\ Len(combined.rows) = Cardinality(Positions)
               /\ \A p \in Positions :
                      Count(combined.rows, RowAt(p))
                          = Cardinality({q \in Positions :
                                            SameValues(RowAt(q), RowAt(p))})

\* C11 witness: two sources with one (timestamp, region) pair in common at
\* different prices are merged with drop_duplicates true; the table has one
\* row less than the sources and the pair carries the first source's price.
C11_Witness ==
    /\ Merged
    /\ drop_duplicates
    /\ Len(frames) = 2
    /\ Len(combined.rows) = Cardinality(Positions) - 1
    /\ \E k \in 1..Len(frames[2].rows) :
           /\ SamePair(RowAt(<<1, 1>>), RowAt(<<2, k>>))
           /\ RowAt(<<1, 1>>).price # RowAt(<<2, k>>).price
           /\ \E j \in 1..Len(combined.rows) :
                  SameValues(combined.rows[j], RowAt(<<1, 1>>))

Fails(i) == LoadCsv(file_paths[i], options).kind = "error"
FirstFailing(i) == Fails(i) /\ \A j \in 1..(i - 1) : ~Fails(j)

\* C12: an empty list of sources fails with NoSources; when a source fails to
\* load, load_csvs fails with the error of the first such source in list
\* order, having loaded only the sources before it; a table is returned only
\* when every source loaded.
C12_NoPartialMerge ==
    /\ (file_paths = <<>> /\ merge_pc # "start")
           => /\ merge_pc = "failed"
              /\ combined = [kind |-> "error", error |-> "NoSources", role |-> ""]
    /\ \A i \in 1..Len(file_paths) :
           FirstFailing(i)
               => /\ merge_pc \in {"start", "load", "failed"}
                  /\ Len(frames) < i
                  /\ merge_pc = "failed"
                         => /\ combined = LoadCsv(file_paths[i], options)
                            /\ Len(frames) = i - 1
    /\ combined.kind = "table"
           => /\ merge_pc = "done"
              /\ Len(frames) = Len(file_paths)
              /\ \A i \in 1..Len(file_paths) : ~Fails(i)
    /\ merge_pc = "failed" => combined.kind = "error"

\* C12 witness: the first of two sources loads, the second fails, and the
\* call has failed with the second source's error.
C12_Witness ==
    /\ merge_pc = "failed"
    /\ Len(file_paths) = 2
    /\ ~Fails(1)
    /\ Fails(2)
    /\ Len(frames) = 1
    /\ combined = LoadCsv(file_paths[2], options)

\* ---------------------------------------------------------------- C13, C14
QuantileOutOfRange == quantile # None /\ ~(0 <= quantile.v /\ quantile.v <= 4)

\* C13 as stated, for a non-empty table: detect_spikes fails with
\* MissingCriterion when threshold and quantile are both omitted, and fails
\* with InvalidQuantile whenever the quantile given lies outside [0,1], with
\* or without a threshold.
C13_ValidatesCriterion ==
    (spikes # None /\ spike_df # <<>>) =>
        /\ (threshold = None /\ quantile = None)
               => spikes = [kind |-> "error", error |-> "MissingCriterion"]
        /\ QuantileOutOfRange
               => spikes = [kind |-> "error", error |-> "InvalidQuantile"]

\* The positions of the rows at or above the cutoff, and the j-th of them.
AtCutoff == {k \in 1..Len(spike_df) : 4 * spike_df[k].price >= spikes.stats.cutoff}
Nth(j) == CHOOSE k \in AtCutoff : Cardinality({i \in AtCutoff : i <= k}) = j

\* C14: the events are exactly the rows with price >= cutoff in their original
\* order, spike_count is their number, max_spike and mean_spike are present
\* iff there is an event, a threshold given is the cutoff, a cutoff taken from
\* a quantile yields at least one event, and threshold 300 on the prices
\* 50, 200, 100, 400 returns the 400 row alone with cutoff 300.
C14_EventsAreRowsAtOrAboveCutoff ==
    spikes.kind = "spikes" =>
        /\ Len(spikes.events) = Cardinality(AtCutoff)
        /\ \A j \in 1..Len(spikes.events) : spikes.events[j] = spike_df[Nth(j)]
        /\ spikes.stats.spike_count = Len(spikes.events)
        /\ "max_spike" \in DOMAIN spikes.stats <=> spikes.events # <<>>
        /\ "mean_spike" \in DOMAIN spikes.stats <=> spikes.events # <<>>
        /\ threshold # None => spikes.stats.cutoff = 4 * threshold.v
        /\ threshold = None => spikes.events # <<>>
        /\ (spike_df = SpikeTestTable /\ threshold = [kind |-> "num", v |-> 300])
               => /\ spikes.events = <<[timestamp |-> 3, price |-> 400]>>
                  /\ spikes.stats.cutoff = 4 * 300

\* C14 witness: a cutoff taken from the median of three prices; the two rows
\* at or above it are returned in table order, the row below it is not.
C14_Witness ==
    /\ spikes.kind = "spikes"
    /\ threshold = None
    /\ quantile = [kind |-> "num", v |-> 2]
    /\ Len(spike_df) = 3
    /\ Len(spikes.events) = 2
    /\ spikes.events[1].price > spikes.events[2].price
    /\ "max_spike" \in DOMAIN spikes.stats

\* -------------------------------------------------------------------- C15
\* A bound as a point on the table's time axis: the instant it names when the
\* table is zoned (a naive bound being read in the table's zone), its wall
\* clock when the table is naive.
BoundPoint(b) ==
    LET zone == TableTz(filter_df)
    IN IF zone = "naive" THEN b.cell.wall
       ELSE IF b.zone = "naive" THEN b.cell.wall - UtcOffset(zone)
       ELSE b.cell.wall - UtcOffset(b.zone)
Unreadable(b) == b # None /\ b.cell.k # "ts"
RegionOmitted == region = None \/ region = EmptyString
Wanted(row) ==
    /\ RegionOmitted \/ row.region.base = region.base
    /\ start = None \/ BoundPoint(start) <= row.timestamp.t
    /\ end = None \/ row.timestamp.t <= BoundPoint(end)
WantedAt == {k \in 1..Len(filter_df) : Wanted(filter_df[k])}
NthWanted(j) == CHOOSE k \in WantedAt : Cardinality({i \in WantedAt : i <= k}) = j

C15_Selected ==
    filtered # None =>
        /\ filtered.kind = "table" <=> ~Unreadable(start) /\ ~Unreadable(end)
        /\ filtered.kind = "table"
               => /\ Len(filtered.rows) = Cardinality(WantedAt)
                  /\ \A j \in 1..Len(filtered.rows) :
                         filtered.rows[j] = filter_df[NthWanted(j)]

\* C15: when both bounds can be read, filter_data returns exactly the rows, in
\* their original order, whose region equals the requested one ignoring case
\* and whose timestamp lies between start and end, both inclusive; a region
\* that is None or empty and a bound that is None restrict nothing; the input
\* table is not changed.
C15_FilterSelectsInclusive == []C15_Selected /\ [][filter_df' = filter_df]_vars

\* C15 witness: a region asked for in another case than the table's, with a
\* start bound; a row exactly at the start is returned and another row of the
\* table is not.
C15_Witness ==
    /\ filtered.kind = "table"
    /\ region = Header("vic1", "mixed")
    /\ start # None
    /\ Len(filtered.rows) < Len(filter_df)
    /\ \E j \in 1..Len(filtered.rows) :
           /\ filtered.rows[j].timestamp.t = BoundPoint(start)
           /\ filtered.rows[j].region # region

\* -------------------------------------------------------------------- C16
\* The prices of the rows with a timestamp up to h, and the first n prices of
\* the loop, each as the number of times a price occurs.
RowsUpTo(h) == {k \in 1..Len(df) : df[k].timestamp <= h}
TimesOf(p, ks) == Cardinality({k \in ks : df[k].price = p})
LoopTimesOf(p, n) == Cardinality({k \in 1..n : prices[k] = p})
PricesOfTable == {df[k].price : k \in 1..Len(df)}
TimestampsOfTable == {df[k].timestamp : k \in 1..Len(df)}

C16_Order ==
    pc \in Running \cup {"done"} =>
        /\ Len(prices) = Len(df)
        /\ \A h \in TimestampsOfTable : \A p \in PricesOfTable :
               LoopTimesOf(p, Cardinality(RowsUpTo(h))) = TimesOf(p, RowsUpTo(h))
        /\ (pc = "done" /\ Len(df) = 1 /\ cfg.capacity_mwh > 0 /\ cfg.power_mw > 0)
               => /\ result.charge_events = 1
                  /\ result.discharge_events = 1

C16_Step ==
    /\ pc = "charge"
           => /\ pc' = "discharge"
              /\ idx' = idx
              /\ prices' = prices
              /\ high_thr' = high_thr
    /\ pc = "discharge"
           => /\ idx' = idx + 1
              /\ prices' = prices
              /\ pc' = IF idx < Len(prices) THEN "charge" ELSE "return"
    /\ pc = "idle" /\ pc' # "failed" => pc' = "charge" /\ idx' = 1

\* C16: the loop takes the rows in ascending timestamp order, one row per
\* pass from the first to the last; in each pass the charge check comes first
\* and the discharge check follows on the same row and price, with the state
\* of charge the charge check left; so a table of a single row (price at both
\* thresholds) charges and discharges in that one pass.
C16_ChargeThenDischargeInTimeOrder == []C16_Order /\ [][C16_Step]_vars

\* C16 witness: a single row has both charged and discharged.
C16_Witness ==
    /\ pc = "done"
    /\ Len(df) = 1
    /\ result.charge_events = 1
    /\ result.discharge_events = 1

\* -------------------------------------------------------------------- C17
\* Quantities are held as in the model: energy in half MWh, thresholds in
\* quarter dollars, efficiency in tenths, delivered energy in twentieths.
Smaller(a, b) == IF a < b THEN a ELSE b
Capacity == 2 * cfg.capacity_mwh
PerInterval == cfg.power_mw * interval_hours

C17_ChargeStep ==
    LET price == prices[idx]
        a == Smaller(PerInterval, Capacity - soc)
        fires == 4 * price <= low_thr /\ soc < Capacity /\ a > 0
    IN /\ fires => /\ soc' = soc + a
                   /\ energy_from_grid' = energy_from_grid + a
                   /\ cost' = cost + price * a
                   /\ charge_events' = charge_events + 1
       /\ ~fires => /\ soc' = soc
                    /\ energy_from_grid' = energy_from_grid
                    /\ cost' = cost
                    /\ charge_events' = charge_events
       /\ energy_to_grid' = energy_to_grid
       /\ revenue' = revenue
       /\ discharge_events' = discharge_events

C17_DischargeStep ==
    LET price == prices[idx]
        d == Smaller(PerInterval, soc)
        fires == 4 * price >= high_thr /\ soc > 0 /\ d > 0
    IN /\ fires => /\ soc' = soc - d
                   /\ energy_to_grid' = energy_to_grid + d * cfg.round_trip_efficiency
                   /\ revenue' = revenue + price * d * cfg.round_trip_efficiency
                   /\ discharge_events' = discharge_events + 1
       /\ ~fires => /\ soc' = soc
                    /\ energy_to_grid' = energy_to_grid
                    /\ revenue' = revenue
                    /\ discharge_events' = discharge_events
       /\ energy_from_grid' = energy_from_grid
       /\ cost' = cost
       /\ charge_events' = charge_events

\* C17: every charge check and every discharge check is the specified
\* transition: a charge fires iff price <= low_threshold, state_of_charge <
\* capacity and a = min(power * interval_hours, capacity - state_of_charge) > 0,
\* adding a to state_of_charge and energy_from_grid, price * a to cost and 1
\* to charge_events; a discharge fires iff price >= high_threshold,
\* state_of_charge > 0 and d = min(power * interval_hours, state_of_charge) > 0,
\* taking d from state_of_charge and adding d * round_trip_efficiency to
\* energy_to_grid, price * d * round_trip_efficiency to revenue and 1 to
\* discharge_events; a check that does not fire changes none of the totals.
C17_StepsMatchTransition ==
    [][/\ pc = "charge" => C17_ChargeStep
       /\ pc = "discharge" => C17_DischargeStep]_vars

\* C17 witness: after a discharge at an efficiency below 1 the battery is
\* empty although less energy reached the grid than was taken from it.
C17_Witness ==
    /\ pc \in Running
    /\ discharge_events >= 1
    /\ cfg.round_trip_efficiency < 10
    /\ soc = 0
    /\ energy_to_grid < 10 * energy_from_grid

\* -------------------------------------------------------------------- C18
\* The k-th smallest timestamp of the table, the gap after it, and the k-th
\* smallest gap.
KthTimestamp(k) ==
    CHOOSE h \in TimestampsOfTable :
        /\ Cardinality({j \in 1..Len(df) : df[j].timestamp < h}) < k
        /\ k <= Cardinality({j \in 1..Len(df) : df[j].timestamp <= h})
Gap(k) == KthTimestamp(k + 1) - KthTimestamp(k)
GapCount == Len(df) - 1
KthGap(k) ==
    CHOOSE g \in {Gap(j) : j \in 1..GapCount} :
        /\ Cardinality({j \in 1..GapCount : Gap(j) < g}) < k
        /\ k <= Cardinality({j \in 1..GapCount : Gap(j) <= g})
\* Twice the median gap: the middle gap twice, or the two middle gaps.
TwiceMedianGap == KthGap((GapCount + 1) \div 2) + KthGap((GapCount \div 2) + 1)

\* C18: interval_hours (held as twice its value) is the median gap between
\* consecutive timestamps in ascending order, except that it is 1.0 for a
\* table of fewer than two rows or a median gap of zero; it is always
\* positive.  The value is compared when the loop starts and when the call
\* returns it.
C18_IntervalIsMedianGap ==
    /\ pc \in Running \cup {"done"} => interval_hours > 0
    /\ pc = "done" => result.interval_hours = interval_hours
    /\ (pc = "done" \/ (pc = "charge" /\ idx = 1)) =>
           /\ Len(df) < 2 => interval_hours = 2
           /\ Len(df) >= 2 => interval_hours = IF TwiceMedianGap = 0 THEN 2
                                               ELSE TwiceMedianGap

\* C18 witness: a table whose rows all carry the same timestamp; the median
\* gap is zero and interval_hours is 1.0.
C18_Witness ==
    /\ pc = "done"
    /\ Len(df) >= 2
    /\ \A k \in 1..Len(df) : df[k].timestamp = df[1].timestamp
    /\ interval_hours = 2
    /\ result.interval_hours = 2

\* -------------------------------------------------------------------- C19
C19_Balance ==
    pc \in Running \cup {"done"} =>
        /\ energy_to_grid = cfg.round_trip_efficiency * (energy_from_grid - soc)
        /\ energy_to_grid <= cfg.round_trip_efficiency * energy_from_grid
        /\ discharge_events > 0 => charge_events > 0

C19_NeverDecrease ==
    pc \in {"charge", "discharge"}
        => /\ energy_from_grid' >= energy_from_grid
           /\ energy_to_grid' >= energy_to_grid

\* C19: after every check of every row, energy_to_grid equals
\* round_trip_efficiency times (energy_from_grid - state_of_charge), hence is
\* at most round_trip_efficiency times energy_from_grid; there is no discharge
\* event without an earlier charge event; energy_from_grid and energy_to_grid
\* never decrease during a run.
C19_EnergyAccounting == []C19_Balance /\ [][C19_NeverDecrease]_vars

\* C19 witness: a run that discharged part of what it had charged, at an
\* efficiency below 1, and ended with energy left in the battery.
C19_Witness ==
    /\ pc = "done"
    /\ cfg.round_trip_efficiency < 10
    /\ result.discharge_events >= 1
    /\ soc > 0
    /\ energy_to_grid > 0

====
